---- MODULE Spec2Model ----
(***************************************************************************)
(* Model of the provision / destroy scripts (IlayMord/provision).          *)
(*                                                                         *)
(* provision.py (the builder) creates one fixed topology on a cloud        *)
(* control plane; destroy.py (the reaper) finds the resources of the stack *)
(* again and deletes them.  The control plane is the external              *)
(* collaborator: it is the set cp of resource records, every call on it is *)
(* atomic, and a call either succeeds or raises an exception.              *)
(*                                                                         *)
(* Strings that the code searches (names, rendered error texts, the image  *)
(* id) are sequences of tokens, so that "x in s" is a real search.         *)
(***************************************************************************)
EXTENDS Integers, Sequences, FiniteSets, TLC

\* ---------------------------------------------------------------- bounds
\* builder runs one behaviour may hold (reaper runs are not limited)
MaxBuilds == 1
\* exceptions the control plane may raise in one behaviour
MaxFaults == 1
\* longest outcome script of the stand-alone retry scenario
MaxScript == 4
\* longest image id, in tokens, that the configuration checks are given
MaxAmiLen == 3

\* ------------------------------------------------------- program constants
NAME == <<"s3-file-manager">>
STACK == <<"s3-file-manager">>
AMI_ID ==
  <<"ami-", "0", "8", "d", "c", "e", "f", "8", "c", "f", "d", "f", "0", "e", "c", "e", "4", "9">>
MIN_SIZE == 2
MAX_SIZE == 4
DESIRED == 2
PollBudget == 30
AsgSettleDelay == 20
NlbReleaseDelay == 60
RetryDelay == 15

\* ------------------------------------------------------------ text helpers
\* Python's "sub in text" on token sequences
Contains(sub, text) ==
  \E i \in 1..(Len(text) - Len(sub) + 1) : SubSeq(text, i, i + Len(sub) - 1) = sub

\* Python's text.startswith(prefix)
StartsWith(text, prefix) ==
  Len(text) >= Len(prefix) /\ SubSeq(text, 1, Len(prefix)) = prefix

\* ------------------------------------------------------------- exceptions
\* What a control-plane call can raise.  None: the call returned.
None == [type |-> "None", code |-> <<>>, msg |-> <<>>]

ClientError(code, msg) == [type |-> "ClientError", code |-> <<code>>, msg |-> msg]

DependencyViolation ==
  ClientError("DependencyViolation", <<"has dependencies and cannot be deleted">>)
ResourceInUse ==
  ClientError("ResourceInUse", <<"is currently in use by a listener or a rule">>)
UnauthorizedOperation ==
  ClientError("UnauthorizedOperation", <<"You are not authorized to perform this operation">>)
\* an error of another code whose message names a conflict
UnsupportedOperation ==
  ClientError("UnsupportedOperation",
              <<"The operation is not supported while a ", "DependencyViolation",
                " is reported for the resource">>)
\* a botocore error that is no ClientError (the endpoint cannot be reached)
EndpointConnectionError ==
  [type |-> "BotoCoreError", code |-> <<>>, msg |-> <<"Could not connect to the endpoint URL">>]

\* errors by their code: the two conflict codes, and everything else
Exceptions ==
  {DependencyViolation, ResourceInUse, UnauthorizedOperation, UnsupportedOperation,
   EndpointConnectionError}
Transients ==
  {e \in Exceptions :
     e.type = "ClientError" /\ e.code[1] \in {"DependencyViolation", "ResourceInUse"}}
Fatals == Exceptions \ Transients

\* botocore renders a ClientError as
\*   An error occurred (<code>) when calling the <op> operation: <message>
str(e) ==
  IF e.type = "ClientError"
  THEN <<"An error occurred (">> \o e.code \o <<") when calling the operation: ">> \o e.msg
  ELSE e.msg

\* the short name of an outcome, as the call log keeps it
ResultOf(e) ==
  IF e.type = "None" THEN "ok"
  ELSE IF e.type = "ClientError" THEN e.code[1] ELSE "EndpointConnectionError"

\* ---------------------------------------------------------- resource records
NoId == <<"none", 0, 0>>

Resource(kind, id, name, tags, vpc, deps) ==
  [kind |-> kind, id |-> id, name |-> name, tags |-> tags, vpc |-> vpc,
   deps |-> deps, att |-> NoId, main |-> FALSE, cap |-> <<>>]

\* one entry of the call log of the current run
Call(op, id, tags, deps, arg, res) ==
  [op |-> op, id |-> id, tags |-> tags, deps |-> deps, arg |-> arg, res |-> res]

\* Resources of other stacks that may live in the same region: a load
\* balancer of the stack "s3-file-manager-v2" and a launch template of an
\* unrelated stack.  Neither carries the tag stack = STACK.
ForeignLb ==
  Resource("lb", <<"lb", 0, 1>>, <<"s3-file-manager", "-v2", "-nlb">>,
           {<<"stack", <<"s3-file-manager", "-v2">>>>}, NoId, {})
ForeignLt ==
  Resource("lt", <<"lt", 0, 1>>, <<"billing", "-lt">>, {<<"stack", <<"billing">>>>}, NoId, {})

VARIABLES
  cp,        \* the control plane: the set of resources that exist
  mode,      \* "idle", "builder" or "reaper": the script that is running
  builds,    \* number of builder runs started so far (names the resources)
  last,      \* how the previous run ended: <<script, "done" | "failed" | "none">>
  completed, \* builder runs that reached their summary
  calls,     \* the calls the current (or last) run issued, in order
  bpc,       \* builder: <<index in main, index in the function's body>>
  loc,       \* builder: the identifiers threaded through main
  polls,     \* builder: iterations of the load-balancer wait loop so far
  lbState,   \* the state the control plane holds for the builder's new load balancer
  rpc,       \* reaper: the phase it is in
  todo,      \* reaper: what is left of the listing the current loop iterates
  cur,       \* reaper: the loop variable of the current loop
  vpcTodo,   \* reaper: what is left of the network listing
  vpc,       \* reaper: the network of the current outer iteration
  rt,        \* the retry driver's counters: attempts, sleeps, status
  faults,    \* exceptions the control plane has raised so far
  script     \* stand-alone retry scenario: outcomes still to come

vars == <<cp, mode, builds, last, completed, calls, bpc, loc, polls, lbState,
          rpc, todo, cur, vpcTodo, vpc, rt, faults, script>>

\* ================================================================ builder
\* Values the constants at the top of provision.py ("CONFIG (EDIT THESE)")
\* may hold: the shipped ones, and edits of the image id and of the capacity
\* bounds <<MIN_SIZE, MAX_SIZE, DESIRED>>.  Each is read once per run, where
\* main uses it.
Amis == {AMI_ID, <<"ami-", "x", "x", "x">>, <<"img-", "1", "2">>}
Caps == {<<MIN_SIZE, MAX_SIZE, DESIRED>>, <<3, MAX_SIZE, DESIRED>>}

\* the identifiers main threads from one creation into the next
NoLoc ==
  [vpc_id |-> NoId, igw_id |-> NoId, rt_id |-> NoId, subnet1 |-> NoId, subnet2 |-> NoId,
   sg_id |-> NoId, tg_arn |-> NoId, lb_arn |-> NoId, listener_arn |-> NoId,
   lt_id |-> NoId, asg_name |-> NoId]

tag_spec(resource_type, name) == {<<"Name", name>>, <<"stack", NAME>>}

\* the result of one successful call: the control plane after it, the
\* builder's identifiers after it, and the log entry of the call
Done(c, l, call) == [cp |-> c, loc |-> l, call |-> call]

\* c after resource id came to depend on d (a route), or was attached to d
AddDep(c, id, d) == {IF r.id = id THEN [r EXCEPT !.deps = @ \cup {d}] ELSE r : r \in c}
Attach(c, id, d) ==
  {IF r.id = id THEN [r EXCEPT !.att = d, !.deps = @ \cup {d}] ELSE r : r \in c}

create_vpc(k, c, l, b) ==
  LET id == <<"vpc", b, 0>>
      tags == tag_spec("vpc", NAME \o <<"-vpc">>)
      \* the control plane gives every network its main route table
      mainrt == [Resource("rt", <<"rt", b, 0>>, <<>>, {}, id, {id}) EXCEPT !.main = TRUE]
  IN CASE k = 1 -> Done(c \cup {Resource("vpc", id, <<>>, tags, NoId, {}), mainrt},
                        [l EXCEPT !.vpc_id = id],
                        Call("create_vpc", id, tags, {}, <<>>, "ok"))
       [] k = 2 -> Done(c, l, Call("modify_vpc_attribute", l.vpc_id, {}, {}, <<"EnableDnsSupport">>, "ok"))
       [] k = 3 -> Done(c, l, Call("modify_vpc_attribute", l.vpc_id, {}, {}, <<"EnableDnsHostnames">>, "ok"))

create_igw(k, c, l, b) ==
  LET id == <<"igw", b, 0>>
      tags == tag_spec("internet-gateway", NAME \o <<"-igw">>)
  IN CASE k = 1 -> Done(c \cup {Resource("igw", id, <<>>, tags, NoId, {})},
                        [l EXCEPT !.igw_id = id],
                        Call("create_internet_gateway", id, tags, {}, <<>>, "ok"))
       [] k = 2 -> Done(Attach(c, l.igw_id, l.vpc_id), l,
                        Call("attach_internet_gateway", l.igw_id, {}, {l.vpc_id}, <<>>, "ok"))

create_route_table(k, c, l, b) ==
  LET id == <<"rt", b, 1>>
      tags == tag_spec("route-table", NAME \o <<"-public-rt">>)
  IN CASE k = 1 -> Done(c \cup {Resource("rt", id, <<>>, tags, l.vpc_id, {l.vpc_id})},
                        [l EXCEPT !.rt_id = id],
                        Call("create_route_table", id, tags, {l.vpc_id}, <<>>, "ok"))
       [] k = 2 -> Done(AddDep(c, l.rt_id, l.igw_id), l,
                        Call("create_route", l.rt_id, {}, {l.igw_id}, <<>>, "ok"))

create_public_subnet(idx, k, c, l, b) ==
  LET id == <<"subnet", b, idx>>
      tags == tag_spec("subnet", NAME \o <<"-public-subnet-">>)
      mine == IF idx = 0 THEN l.subnet1 ELSE l.subnet2
  IN CASE k = 1 -> Done(c \cup {Resource("subnet", id, <<>>, tags, l.vpc_id, {l.vpc_id})},
                        IF idx = 0 THEN [l EXCEPT !.subnet1 = id] ELSE [l EXCEPT !.subnet2 = id],
                        Call("create_subnet", id, tags, {l.vpc_id}, <<idx>>, "ok"))
       [] k = 2 -> Done(c, l, Call("modify_subnet_attribute", mine, {}, {}, <<"MapPublicIpOnLaunch">>, "ok"))
       [] k = 3 -> Done(Attach(c, mine, l.rt_id), l,
                        Call("associate_route_table", mine, {}, {l.rt_id}, <<>>, "ok"))

create_ec2_sg(k, c, l, b) ==
  LET id == <<"sg", b, 0>>
      name == NAME \o <<"-ec2-sg">>
      tags == tag_spec("security-group", name)
  IN CASE k = 1 -> Done(c \cup {Resource("sg", id, name, tags, l.vpc_id, {l.vpc_id})},
                        [l EXCEPT !.sg_id = id],
                        Call("create_security_group", id, tags, {l.vpc_id}, <<>>, "ok"))
       [] k = 2 -> Done(c, l, Call("authorize_security_group_ingress", l.sg_id, {}, {}, <<443>>, "ok"))

create_target_group(k, c, l, b) ==
  LET id == <<"tg", b, 0>>
      tg_name == NAME \o <<"-tg-443">>
      tags == {<<"stack", NAME>>, <<"Name", tg_name>>}
  IN Done(c \cup {Resource("tg", id, tg_name, tags, l.vpc_id, {l.vpc_id})},
          [l EXCEPT !.tg_arn = id],
          Call("create_target_group", id, tags, {l.vpc_id}, <<>>, "ok"))

\* the create call of create_nlb; its wait loop is the action PollNlb
create_nlb(k, c, l, b) ==
  LET id == <<"lb", b, 0>>
      lb_name == NAME \o <<"-nlb">>
      tags == {<<"stack", NAME>>, <<"Name", lb_name>>}
  IN Done(c \cup {Resource("lb", id, lb_name, tags, NoId, {l.subnet1, l.subnet2})},
          [l EXCEPT !.lb_arn = id],
          Call("create_load_balancer", id, tags, {l.subnet1, l.subnet2}, <<>>, "ok"))

create_nlb_listener_tcp_443(k, c, l, b) ==
  LET id == <<"listener", b, 0>>
  IN Done(c \cup {Resource("listener", id, <<>>, {}, NoId, {l.lb_arn, l.tg_arn})},
          [l EXCEPT !.listener_arn = id],
          Call("create_listener", id, {}, {l.lb_arn, l.tg_arn}, <<443>>, "ok"))

create_launch_template(k, c, l, b) ==
  LET id == <<"lt", b, 0>>
      lt_name == NAME \o <<"-lt">>
      tags == tag_spec("launch-template", lt_name)
  IN Done(c \cup {Resource("lt", id, lt_name, tags, NoId, {l.sg_id})},
          [l EXCEPT !.lt_id = id],
          Call("create_launch_template", id, tags, {l.sg_id}, <<>>, "ok"))

create_asg(cap, k, c, l, b) ==
  LET id == <<"asg", b, 0>>
      asg_name == NAME \o <<"-asg">>
      tags == {<<"Name", asg_name>>, <<"stack", NAME>>}
      deps == {l.lt_id, l.subnet1, l.subnet2, l.tg_arn}
  IN Done(c \cup {[Resource("asg", id, asg_name, tags, NoId, deps) EXCEPT !.cap = cap]},
          [l EXCEPT !.asg_name = id],
          Call("create_auto_scaling_group", id, tags, deps, cap, "ok"))

\* main with the launch template created before the security group it names
main_lt_before_sg ==
  <<"check_ami", "pick_two_azs", "create_vpc", "create_igw", "create_route_table",
    "create_public_subnet_0", "create_public_subnet_1", "create_launch_template",
    "create_ec2_sg", "create_target_group", "create_nlb", "create_nlb_listener_tcp_443",
    "create_asg", "summary">>

\* the functions main calls, in the order it calls them
main ==
  <<"check_ami", "pick_two_azs", "create_vpc", "create_igw", "create_route_table",
    "create_public_subnet_0", "create_public_subnet_1", "create_ec2_sg",
    "create_target_group", "create_nlb", "create_nlb_listener_tcp_443",
    "create_launch_template", "create_asg", "summary">>

\* the number of control-plane calls each function makes (a wait loop counts once)
NCalls(fn) ==
  CASE fn \in {"create_vpc", "create_public_subnet_0", "create_public_subnet_1"} -> 3
    [] fn \in {"create_igw", "create_route_table", "create_ec2_sg", "create_nlb"} -> 2
    [] OTHER -> 1

\* call k of function fn against control plane c
Perform(fn, k, cap, c, l, b) ==
  CASE fn = "create_vpc" -> create_vpc(k, c, l, b)
    [] fn = "create_igw" -> create_igw(k, c, l, b)
    [] fn = "create_route_table" -> create_route_table(k, c, l, b)
    [] fn = "create_public_subnet_0" -> create_public_subnet(0, k, c, l, b)
    [] fn = "create_public_subnet_1" -> create_public_subnet(1, k, c, l, b)
    [] fn = "create_ec2_sg" -> create_ec2_sg(k, c, l, b)
    [] fn = "create_target_group" -> create_target_group(k, c, l, b)
    [] fn = "create_nlb" -> create_nlb(k, c, l, b)
    [] fn = "create_nlb_listener_tcp_443" -> create_nlb_listener_tcp_443(k, c, l, b)
    [] fn = "create_launch_template" -> create_launch_template(k, c, l, b)
    [] fn = "create_asg" -> create_asg(cap, k, c, l, b)

\* where main is after call k of function i returned
Advance(i, k) == IF k < NCalls(main[i]) THEN <<i, k + 1>> ELSE <<i + 1, 1>>

\* a name the region already holds: the control plane refuses the create call
NameTaken(c, new) ==
  \E n \in new, r \in c :
    n.kind \in {"tg", "lb", "lt", "asg"} /\ r.kind = n.kind /\ r.name = n.name

NoRes == Resource("none", NoId, <<>>, {}, NoId, {})
RetryIdle == [attempts |-> 0, sleeps |-> 0, status |-> "idle"]

BuilderFrame == UNCHANGED <<builds, rpc, todo, cur, vpcTodo, vpc, rt, script>>

\* the builder process ends: normally after the summary, or by an exception
BuilderEnds(how) ==
  /\ mode' = "idle"
  /\ last' = <<"builder", how>>
  /\ completed' = IF how = "done" THEN completed \cup {builds} ELSE completed
  /\ bpc' = <<0, 0>>
  /\ loc' = NoLoc
  /\ polls' = 0
  /\ lbState' = ""

BuilderGoes(to, l) ==
  /\ bpc' = to
  /\ loc' = l
  /\ UNCHANGED <<mode, last, completed>>

\* python3 provision.py
BuilderStart ==
  /\ mode = "idle"
  /\ builds < MaxBuilds
  /\ mode' = "builder"
  /\ builds' = builds + 1
  /\ calls' = <<>>
  /\ bpc' = <<1, 1>>
  /\ loc' = NoLoc
  /\ polls' = 0
  /\ lbState' = ""
  /\ UNCHANGED <<cp, last, completed, rpc, todo, cur, vpcTodo, vpc, rt, faults, script>>

\* main's first statement: the image id must look like one
check_ami(ami) == ~(StartsWith(ami, <<"ami-">>) = FALSE \/ Contains(<<"x">>, ami))

CheckAmi ==
  /\ mode = "builder"
  /\ main[bpc[1]] = "check_ami"
  /\ \E ami \in Amis :
       IF check_ami(ami)
       THEN BuilderGoes(Advance(bpc[1], bpc[2]), loc) /\ calls' = calls
            /\ UNCHANGED <<polls, lbState>>
       ELSE BuilderEnds("failed")
            /\ calls' = Append(calls, Call("raise", NoId, {}, {}, <<>>, "SystemExit"))
  /\ UNCHANGED <<cp, faults>>
  /\ BuilderFrame

\* numbers of available zones the region may report
AzCounts == {1, 2}

pick_two_azs(names) == names >= 2

PickTwoAzs ==
  /\ mode = "builder"
  /\ main[bpc[1]] = "pick_two_azs"
  /\ \/ \E n \in AzCounts :
          /\ calls' = Append(calls, Call("describe_availability_zones", NoId, {}, {}, <<n>>,
                                         IF pick_two_azs(n) THEN "ok" ELSE "RuntimeError"))
          /\ IF pick_two_azs(n)
             THEN BuilderGoes(Advance(bpc[1], bpc[2]), loc) /\ UNCHANGED <<polls, lbState>>
             ELSE BuilderEnds("failed")
          /\ faults' = faults
     \/ /\ faults < MaxFaults
        /\ faults' = faults + 1
        /\ calls' = Append(calls, Call("describe_availability_zones", NoId, {}, {}, <<>>,
                                       ResultOf(UnauthorizedOperation)))
        /\ BuilderEnds("failed")
  /\ UNCHANGED cp
  /\ BuilderFrame

IsApiStep(i, k) ==
  /\ main[i] \notin {"check_ami", "pick_two_azs", "summary"}
  /\ ~(main[i] = "create_nlb" /\ k = 2)

\* the capacity constants, read where create_asg passes them
CapsRead(fn) == IF fn = "create_asg" THEN Caps ELSE {<<MIN_SIZE, MAX_SIZE, DESIRED>>}

\* one control-plane call of main returns
BuilderCall ==
  /\ mode = "builder"
  /\ IsApiStep(bpc[1], bpc[2])
  /\ \E cap \in CapsRead(main[bpc[1]]) :
       LET d == Perform(main[bpc[1]], bpc[2], cap, cp, loc, builds)
       IN /\ ~NameTaken(cp, d.cp \ cp)
          /\ cp' = d.cp
          /\ calls' = Append(calls, d.call)
          /\ BuilderGoes(Advance(bpc[1], bpc[2]), d.loc)
          /\ polls' = 0
          /\ lbState' = IF main[bpc[1]] = "create_nlb" THEN "provisioning" ELSE lbState
  /\ faults' = faults
  /\ BuilderFrame

\* a failing call after which the builder removes what the run had created
BuilderCallFails_rollback ==
  /\ mode = "builder"
  /\ IsApiStep(bpc[1], bpc[2])
  /\ faults < MaxFaults
  /\ faults' = faults + 1
  /\ LET d == Perform(main[bpc[1]], bpc[2], <<MIN_SIZE, MAX_SIZE, DESIRED>>, cp, loc, builds)
     IN calls' = Append(calls, [d.call EXCEPT !.res = ResultOf(UnauthorizedOperation)])
  /\ BuilderEnds("failed")
  /\ cp' = {r \in cp : r.id[2] # builds}
  /\ BuilderFrame

\* one control-plane call of main raises: nothing catches it, the process ends
BuilderCallFails ==
  /\ mode = "builder"
  /\ IsApiStep(bpc[1], bpc[2])
  /\ \E cap \in CapsRead(main[bpc[1]]) :
       LET d == Perform(main[bpc[1]], bpc[2], cap, cp, loc, builds)
           dup == NameTaken(cp, d.cp \ cp)
       IN /\ dup \/ faults < MaxFaults
          /\ faults' = IF dup THEN faults ELSE faults + 1
          /\ calls' = Append(calls, [d.call EXCEPT
                          !.res = IF dup THEN "Duplicate" ELSE ResultOf(UnauthorizedOperation)])
  /\ BuilderEnds("failed")
  /\ UNCHANGED cp
  /\ BuilderFrame

\* states the control plane may report for a load balancer it reported in state s
LbStates(s) == {s, "active"}

\* a wait loop that polls on after the state "active" was reported
LeavesLoop_no_break(s, n) == n >= PollBudget

\* a wait loop that gives up after its first poll
LeavesLoop_first_poll(s, n) == n >= 1

\* the wait loop ends after poll number n reported state s: break, or range(30)
\* is exhausted
LeavesLoop(s, n) == s = "active" \/ n >= PollBudget

\* one iteration of create_nlb's wait loop:
\*   for _ in range(30): describe; if active: break; wait(..., 2)
PollNlb ==
  /\ mode = "builder"
  /\ main[bpc[1]] = "create_nlb" /\ bpc[2] = 2
  /\ LET lb == CHOOSE r \in cp : r.id = loc.lb_arn
     IN \/ \E s \in LbStates(lbState) :
             LET poll == Call("describe_load_balancers", lb.id, {}, {}, <<s>>, "ok")
                 sleep == Call("sleep", NoId, {}, {}, <<2>>, "ok")
                 leave == LeavesLoop(s, polls + 1)
             IN /\ lbState' = s
                /\ calls' = IF s = "active" THEN Append(calls, poll)
                            ELSE calls \o <<poll, sleep>>
                /\ polls' = polls + 1
                /\ BuilderGoes(IF leave THEN Advance(bpc[1], bpc[2]) ELSE bpc, loc)
                /\ faults' = faults
        \/ /\ faults < MaxFaults
           /\ faults' = faults + 1
           /\ calls' = Append(calls, Call("describe_load_balancers", lb.id, {}, {}, <<>>,
                                          ResultOf(UnauthorizedOperation)))
           /\ BuilderEnds("failed")
  /\ UNCHANGED cp
  /\ BuilderFrame

\* main prints its summary and returns
Summary ==
  /\ mode = "builder"
  /\ main[bpc[1]] = "summary"
  /\ calls' = Append(calls, Call("print_summary", NoId, {}, {}, <<>>, "ok"))
  /\ BuilderEnds("done")
  /\ UNCHANGED <<cp, faults>>
  /\ BuilderFrame

\* ================================================================= reaper
\* the retry driver's classification of a caught ClientError
is_transient(e) ==
  Contains(<<"DependencyViolation">>, str(e)) \/ Contains(<<"ResourceInUse">>, str(e))

\* retry with a ceiling of three attempts
retry_ceiling(st, exc) ==
  IF exc = None
  THEN [attempts |-> st.attempts + 1, sleeps |-> st.sleeps, status |-> "returned"]
  ELSE IF exc.type = "ClientError" /\ is_transient(exc) /\ st.attempts + 1 < 3
  THEN [attempts |-> st.attempts + 1, sleeps |-> st.sleeps + 1, status |-> "running"]
  ELSE [attempts |-> st.attempts + 1, sleeps |-> st.sleeps, status |-> "raised"]

\* retry that stops waiting after two sleeps and returns
retry_gives_up(st, exc) ==
  IF exc = None \/ (exc.type = "ClientError" /\ is_transient(exc) /\ st.sleeps >= 2)
  THEN [attempts |-> st.attempts + 1, sleeps |-> st.sleeps, status |-> "returned"]
  ELSE IF exc.type = "ClientError" /\ is_transient(exc)
  THEN [attempts |-> st.attempts + 1, sleeps |-> st.sleeps + 1, status |-> "running"]
  ELSE [attempts |-> st.attempts + 1, sleeps |-> st.sleeps, status |-> "raised"]

\* retry that swallows what it does not retry
retry_swallow(st, exc) ==
  IF exc.type = "ClientError" /\ is_transient(exc)
  THEN [attempts |-> st.attempts + 1, sleeps |-> st.sleeps + 1, status |-> "running"]
  ELSE [attempts |-> st.attempts + 1, sleeps |-> st.sleeps, status |-> "returned"]

\* One turn of retry's loop: fn() raised exc (None: it returned).
\*   returned: retry returns; running: it slept and loops; raised: exc propagates
retry(st, exc) ==
  IF exc = None
  THEN [attempts |-> st.attempts + 1, sleeps |-> st.sleeps, status |-> "returned"]
  ELSE IF exc.type = "ClientError" /\ is_transient(exc)
  THEN [attempts |-> st.attempts + 1, sleeps |-> st.sleeps + 1, status |-> "running"]
  ELSE [attempts |-> st.attempts + 1, sleeps |-> st.sleeps, status |-> "raised"]

\* the tag looked up under a key the builder never writes
has_stack_tag_wrong_key(obj) == \E t \in obj.tags : t[1] = "Stack" /\ t[2] = STACK

has_stack_tag(obj) == \E t \in obj.tags : t[1] = "stack" /\ t[2] = STACK

\* the listings the reaper iterates, after its own filter
ListAsgs(c) == {r \in c : r.kind = "asg" /\ has_stack_tag(r)}
ListNlbs(c) == {r \in c : r.kind = "lb" /\ Contains(STACK, r.name)}
ListTgs(c) == {r \in c : r.kind = "tg" /\ Contains(STACK, r.name)}
ListLts(c) == {r \in c : r.kind = "lt" /\ Contains(STACK, r.name)}
ListSgs(c) == {r \in c : r.kind = "sg" /\ has_stack_tag(r)}
ListVpcs(c) == {r \in c : r.kind = "vpc" /\ has_stack_tag(r)}
ListIgws(c, vpc_id) == {r \in c : r.kind = "igw" /\ r.att = vpc_id}
ListSubnets(c, vpc_id) == {r \in c : r.kind = "subnet" /\ r.vpc = vpc_id}
ListRts(c, vpc_id) == {r \in c : r.kind = "rt" /\ r.vpc = vpc_id /\ ~r.main}

\* the control plane's side of the reaper's calls
Remove(c, id) == {r \in c : r.id # id}
\* a load balancer goes with its listeners
RemoveLb(c, id) == {r \in c : r.id # id /\ ~(r.kind = "listener" /\ id \in r.deps)}
\* a network goes with its main route table
RemoveVpc(c, id) == {r \in c : r.id # id /\ ~(r.kind = "rt" /\ r.main /\ r.vpc = id)}
Detach(c, id) == {IF r.id = id THEN [r EXCEPT !.att = NoId] ELSE r : r \in c}
SetCapacity(c, id, cap) ==
  {IF r.id = id THEN [r EXCEPT !.cap = cap] ELSE r : r \in c}

\* what the resource with this identifier referenced when it was built
DepsOf(c, id) == UNION {r.deps : r \in {x \in c : x.id = id}}

\* the transient conflict each service reports, and the errors a call may raise
Conflict(op) ==
  IF op \in {"update_auto_scaling_group", "delete_auto_scaling_group",
             "delete_load_balancer", "delete_target_group"}
  THEN ResourceInUse ELSE DependencyViolation

Raises(op) ==
  IF faults < MaxFaults
  THEN {Conflict(op), UnauthorizedOperation, UnsupportedOperation}
  ELSE {}

ReaperFrame == UNCHANGED <<builds, completed, bpc, loc, polls, lbState, script>>

\* an exception reaches the top of destroy.py, or its last line is reached
ReaperEnds(how) ==
  /\ mode' = "idle"
  /\ last' = <<"reaper", how>>
  /\ rpc' = "none"
  /\ todo' = {}
  /\ cur' = NoRes
  /\ vpcTodo' = {}
  /\ vpc' = NoRes
  /\ rt' = RetryIdle

ReaperGoes(to, list, c) ==
  /\ rpc' = to
  /\ todo' = list
  /\ cur' = c
  /\ UNCHANGED <<mode, last, vpcTodo, vpc>>

Sleep(seconds) == Call("sleep", NoId, {}, {}, <<seconds>>, "ok")

\* A call outside retry: op on the resource id, with effect c on success.
\* after: log entries that follow a successful call (a sleep).
Plain(op, id, arg, c, after, to, list, nextcur) ==
  \E exc \in {None} \cup Raises(op) :
    /\ calls' = Append(calls, Call(op, id, {}, DepsOf(cp, id), arg, ResultOf(exc)))
                  \o (IF exc = None THEN after ELSE <<>>)
    /\ IF exc = None
       THEN /\ cp' = c
            /\ ReaperGoes(to, list, nextcur)
            /\ UNCHANGED <<rt, faults>>
       ELSE /\ cp' = cp
            /\ faults' = faults + 1
            /\ ReaperEnds("failed")

\* retry(msg, lambda: op(id)): one turn of the loop per step
Retried(op, id, arg, c, to, list, nextcur) ==
  \E exc \in {None} \cup Raises(op) :
    LET st == retry(rt, exc)
    IN /\ calls' = Append(calls, Call(op, id, {}, DepsOf(cp, id), arg, ResultOf(exc)))
                     \o (IF st.sleeps > rt.sleeps THEN <<Sleep(RetryDelay)>> ELSE <<>>)
       /\ CASE st.status = "returned" ->
                 /\ cp' = c
                 /\ rt' = RetryIdle
                 /\ faults' = faults
                 /\ ReaperGoes(to, list, nextcur)
            [] st.status = "running" ->
                 /\ cp' = cp
                 /\ rt' = st
                 /\ faults' = faults + 1
                 /\ UNCHANGED <<mode, last, rpc, todo, cur, vpcTodo, vpc>>
            [] st.status = "raised" ->
                 /\ cp' = cp
                 /\ faults' = faults + 1
                 /\ ReaperEnds("failed")

\* the sections with the route tables deleted before the subnets
After_rt_before_subnet(phase) ==
  CASE phase = "asg" -> "nlb"
    [] phase = "nlb" -> "tg"
    [] phase = "tg" -> "lt"
    [] phase = "lt" -> "sg"
    [] phase = "sg" -> "vpc"
    [] phase = "igw" -> "rtb"
    [] phase = "rtb" -> "subnet"
    [] phase = "subnet" -> "vpc_delete"

\* the sections with the security groups deleted before the launch templates
After_sg_before_lt(phase) ==
  CASE phase = "asg" -> "nlb"
    [] phase = "nlb" -> "tg"
    [] phase = "tg" -> "sg"
    [] phase = "sg" -> "lt"
    [] phase = "lt" -> "vpc"
    [] phase = "igw" -> "subnet"
    [] phase = "subnet" -> "rtb"
    [] phase = "rtb" -> "vpc_delete"

\* the order of the sections of destroy.py: the one that follows each
After(phase) ==
  CASE phase = "asg" -> "nlb"
    [] phase = "nlb" -> "tg"
    [] phase = "tg" -> "lt"
    [] phase = "lt" -> "sg"
    [] phase = "sg" -> "vpc"
    [] phase = "igw" -> "subnet"
    [] phase = "subnet" -> "rtb"
    [] phase = "rtb" -> "vpc_delete"

\* the listing each section iterates
Listing(phase, c, vpc_id) ==
  CASE phase = "asg" -> ListAsgs(c)
    [] phase = "nlb" -> ListNlbs(c)
    [] phase = "tg" -> ListTgs(c)
    [] phase = "lt" -> ListLts(c)
    [] phase = "sg" -> ListSgs(c)
    [] phase = "igw" -> ListIgws(c, vpc_id)
    [] phase = "subnet" -> ListSubnets(c, vpc_id)
    [] phase = "rtb" -> ListRts(c, vpc_id)
    [] OTHER -> {}

\* a loop is exhausted: the next section starts with its listing
Leave(phase, after) ==
  /\ mode = "reaper" /\ rpc = phase /\ todo = {}
  /\ calls' = calls \o after
  /\ IF After(phase) = "vpc"
     THEN /\ rpc' = "vpc"
          /\ vpcTodo' = ListVpcs(cp)
          /\ UNCHANGED <<mode, last, todo, cur, vpc>>
     ELSE ReaperGoes(After(phase), Listing(After(phase), cp, vpc.id), NoRes)
  /\ UNCHANGED <<cp, rt, faults>>
  /\ ReaperFrame

\* for x in <listing>: the loop takes its next element
Pick(phase, to) ==
  /\ mode = "reaper"
  /\ rpc = phase
  /\ \E x \in todo : ReaperGoes(to, todo \ {x}, x)
  /\ UNCHANGED <<cp, calls, rt, faults>>
  /\ ReaperFrame

\* python3 destroy.py
ReaperStart ==
  /\ mode = "idle"
  /\ mode' = "reaper"
  /\ calls' = <<>>
  /\ rpc' = "asg"
  /\ todo' = ListAsgs(cp)
  /\ cur' = NoRes
  /\ vpcTodo' = {}
  /\ vpc' = NoRes
  /\ rt' = RetryIdle
  /\ UNCHANGED <<cp, builds, last, completed, bpc, loc, polls, lbState, faults, script>>

\* ---------- ASG ----------
AsgPick == Pick("asg", "asg_update")

\* the scaling group zeroed and then left in place
AsgUpdate_no_delete ==
  /\ mode = "reaper" /\ rpc = "asg_update"
  /\ Plain("update_auto_scaling_group", cur.id, <<0, 0, 0>>,
           SetCapacity(cp, cur.id, <<0, 0, 0>>), <<Sleep(AsgSettleDelay)>>,
           "asg", todo, NoRes)
  /\ ReaperFrame

AsgUpdate ==
  /\ mode = "reaper" /\ rpc = "asg_update"
  /\ Plain("update_auto_scaling_group", cur.id, <<0, 0, 0>>,
           SetCapacity(cp, cur.id, <<0, 0, 0>>), <<Sleep(AsgSettleDelay)>>,
           "asg_delete", todo, cur)
  /\ ReaperFrame

AsgDelete ==
  /\ mode = "reaper" /\ rpc = "asg_delete"
  /\ Plain("delete_auto_scaling_group", cur.id, <<TRUE>>, Remove(cp, cur.id), <<>>,
           "asg", todo, NoRes)
  /\ ReaperFrame

\* ---------- NLB ----------
AsgEnd == Leave("asg", <<>>)

NlbDelete ==
  /\ mode = "reaper" /\ rpc = "nlb"
  /\ \E lb \in todo :
       Plain("delete_load_balancer", lb.id, <<>>, RemoveLb(cp, lb.id), <<>>,
             "nlb", todo \ {lb}, NoRes)
  /\ ReaperFrame

\* ---------- Target Groups ----------
NlbEnd == Leave("nlb", <<Sleep(NlbReleaseDelay)>>)

TgPick == Pick("tg", "tg_delete")

TgDelete ==
  /\ mode = "reaper" /\ rpc = "tg_delete"
  /\ Retried("delete_target_group", cur.id, <<>>, Remove(cp, cur.id), "tg", todo, NoRes)
  /\ ReaperFrame

\* ---------- Launch Templates ----------
TgEnd == Leave("tg", <<>>)

LtDelete ==
  /\ mode = "reaper" /\ rpc = "lt"
  /\ \E lt \in todo :
       Plain("delete_launch_template", lt.id, <<>>, Remove(cp, lt.id), <<>>,
             "lt", todo \ {lt}, NoRes)
  /\ ReaperFrame

\* ---------- Security Groups ----------
LtEnd == Leave("lt", <<>>)

SgPick == Pick("sg", "sg_delete")

SgDelete ==
  /\ mode = "reaper" /\ rpc = "sg_delete"
  /\ Retried("delete_security_group", cur.id, <<>>, Remove(cp, cur.id), "sg", todo, NoRes)
  /\ ReaperFrame

\* ---------- VPC ----------
SgEnd == Leave("sg", <<>>)

\* for vpc in ...: the next network, and the listing of its gateways
VpcPick ==
  /\ mode = "reaper" /\ rpc = "vpc"
  /\ \E v \in vpcTodo :
       /\ vpc' = v
       /\ vpcTodo' = vpcTodo \ {v}
       /\ rpc' = "igw"
       /\ todo' = ListIgws(cp, v.id)
  /\ UNCHANGED <<cp, calls, rt, faults, mode, last, cur>>
  /\ ReaperFrame

IgwPick == Pick("igw", "igw_detach")

IgwDetach ==
  /\ mode = "reaper" /\ rpc = "igw_detach"
  /\ Retried("detach_internet_gateway", cur.id, <<vpc.id>>, Detach(cp, cur.id),
             "igw_delete", todo, cur)
  /\ ReaperFrame

IgwDelete ==
  /\ mode = "reaper" /\ rpc = "igw_delete"
  /\ Retried("delete_internet_gateway", cur.id, <<>>, Remove(cp, cur.id), "igw", todo, NoRes)
  /\ ReaperFrame

IgwEnd == Leave("igw", <<>>)

SubnetPick == Pick("subnet", "subnet_delete")

\* the retried closure bound to a sibling still waiting in the listing
SubnetDelete_sibling ==
  /\ mode = "reaper" /\ rpc = "subnet_delete"
  /\ \E s \in todo \cup {cur} :
       Retried("delete_subnet", s.id, <<>>, Remove(cp, s.id), "subnet", todo, NoRes)
  /\ ReaperFrame

SubnetDelete ==
  /\ mode = "reaper" /\ rpc = "subnet_delete"
  /\ Retried("delete_subnet", cur.id, <<>>, Remove(cp, cur.id), "subnet", todo, NoRes)
  /\ ReaperFrame

SubnetEnd == Leave("subnet", <<>>)

RtPick == Pick("rtb", "rtb_delete")

RtDelete ==
  /\ mode = "reaper" /\ rpc = "rtb_delete"
  /\ Retried("delete_route_table", cur.id, <<>>, Remove(cp, cur.id), "rtb", todo, NoRes)
  /\ ReaperFrame

RtEnd == Leave("rtb", <<>>)

VpcDelete ==
  /\ mode = "reaper" /\ rpc = "vpc_delete"
  /\ Retried("delete_vpc", vpc.id, <<>>, RemoveVpc(cp, vpc.id), "vpc", {}, NoRes)
  /\ ReaperFrame

\* the last line of destroy.py
ReaperDone ==
  /\ mode = "reaper" /\ rpc = "vpc" /\ vpcTodo = {}
  /\ calls' = Append(calls, Call("print_destroyed", NoId, {}, {}, <<>>, "ok"))
  /\ ReaperEnds("done")
  /\ UNCHANGED <<cp, faults>>
  /\ ReaperFrame

\* ========================================================== specification
Worlds == {{ForeignLt}, {ForeignLt, ForeignLb}}

Init ==
  /\ cp \in Worlds
  /\ mode = "idle"
  /\ builds = 0
  /\ last = <<"none", "none">>
  /\ completed = {}
  /\ calls = <<>>
  /\ bpc = <<0, 0>>
  /\ loc = NoLoc
  /\ polls = 0
  /\ lbState = ""
  /\ rpc = "none"
  /\ todo = {}
  /\ cur = NoRes
  /\ vpcTodo = {}
  /\ vpc = NoRes
  /\ rt = RetryIdle
  /\ faults = 0
  /\ script = <<>>

Builder ==
  \/ BuilderStart \/ CheckAmi \/ PickTwoAzs \/ BuilderCall \/ BuilderCallFails
  \/ PollNlb \/ Summary

Reaper ==
  \/ ReaperStart
  \/ AsgPick \/ AsgUpdate \/ AsgDelete \/ AsgEnd
  \/ NlbDelete \/ NlbEnd
  \/ TgPick \/ TgDelete \/ TgEnd
  \/ LtDelete \/ LtEnd
  \/ SgPick \/ SgDelete \/ SgEnd
  \/ VpcPick \/ IgwPick \/ IgwDetach \/ IgwDelete \/ IgwEnd
  \/ SubnetPick \/ SubnetDelete \/ SubnetEnd
  \/ RtPick \/ RtDelete \/ RtEnd \/ VpcDelete
  \/ ReaperDone

Next == Builder \/ Reaper

Spec == Init /\ [][Next]_vars

\* ------------------------------------------------ the retry driver alone
\* retry(msg, fn) called with an operation whose successive invocations end
\* as the script says (None: the invocation returns).
Outcomes == {None} \cup Exceptions

Scripts == UNION {[1..n -> Outcomes] : n \in 1..MaxScript}

InitRetry ==
  /\ cp = {}
  /\ mode = "retry"
  /\ builds = 0
  /\ last = <<"none", "none">>
  /\ completed = {}
  /\ calls = <<>>
  /\ bpc = <<0, 0>>
  /\ loc = NoLoc
  /\ polls = 0
  /\ lbState = ""
  /\ rpc = "none"
  /\ todo = {}
  /\ cur = NoRes
  /\ vpcTodo = {}
  /\ vpc = NoRes
  /\ rt = [attempts |-> 0, sleeps |-> 0, status |-> "running"]
  /\ faults = 0
  /\ script \in Scripts

\* one turn of retry's loop: fn(), then return, sleep or raise
RetryTurn ==
  /\ mode = "retry"
  /\ rt.status = "running"
  /\ rt.attempts < Len(script)
  /\ LET exc == script[rt.attempts + 1]
         st == retry(rt, exc)
     IN /\ rt' = st
        /\ calls' = Append(calls, Call("fn", NoId, {}, {}, <<>>, ResultOf(exc)))
                      \o (IF st.sleeps > rt.sleeps THEN <<Sleep(RetryDelay)>> ELSE <<>>)
  /\ UNCHANGED <<cp, mode, builds, last, completed, bpc, loc, polls, lbState,
                 rpc, todo, cur, vpcTodo, vpc, faults, script>>

\* retry is left: after a return the statement that follows the retry(...)
\* line runs; a raise ends the script
RetryLeaves ==
  /\ mode = "retry"
  /\ rt.status \in {"returned", "raised"}
  /\ mode' = "idle"
  /\ last' = <<"retry", rt.status>>
  /\ calls' = IF rt.status = "returned"
              THEN Append(calls, Call("next_statement", NoId, {}, {}, <<>>, "ok"))
              ELSE calls
  /\ UNCHANGED <<cp, builds, completed, bpc, loc, polls, lbState,
                 rpc, todo, cur, vpcTodo, vpc, rt, faults, script>>

NextRetry == RetryTurn \/ RetryLeaves

SpecRetry == InitRetry /\ [][NextRetry]_vars

\* ------------------------------------------------ the configuration checks
\* main's first statements under a configuration fixed before the run: the
\* image id written at the top of provision.py and the number of available
\* zones the region reports.
AmiTokens == {"ami-", "img-", "0", "g", "x"}

AmiTexts == UNION {[1..n -> AmiTokens] : n \in 1..MaxAmiLen}

Configs == [ami : AmiTexts, azs : AzCounts]

InitConfig ==
  /\ cp = {}
  /\ mode = "builder"
  /\ builds = 1
  /\ last = <<"none", "none">>
  /\ completed = {}
  /\ calls = <<>>
  /\ bpc = <<1, 1>>
  /\ loc = NoLoc
  /\ polls = 0
  /\ lbState = ""
  /\ rpc = "none"
  /\ todo = {}
  /\ cur = NoRes
  /\ vpcTodo = {}
  /\ vpc = NoRes
  /\ rt = RetryIdle
  /\ faults = 0
  /\ script \in Configs

\* the test of AMI_ID, with AMI_ID as configured
ConfigCheckAmi ==
  /\ CheckAmi
  /\ (mode' = "builder") = check_ami(script.ami)

\* pick_two_azs, with the zones the region has
ConfigPickTwoAzs ==
  /\ PickTwoAzs
  /\ calls'[Len(calls')].arg = <<script.azs>>

\* create_vpc, the first function of main that creates something
ConfigCreateVpc ==
  /\ mode = "builder"
  /\ main[bpc[1]] = "create_vpc"
  /\ BuilderCall

NextConfig == ConfigCheckAmi \/ ConfigPickTwoAzs \/ ConfigCreateVpc

SpecConfig == InitConfig /\ [][NextConfig]_vars

\* ================================================================= claims
InBuilderLog == mode = "builder" \/ (mode = "idle" /\ last[1] = "builder")
InReaperLog == mode = "reaper" \/ (mode = "idle" /\ last[1] = "reaper")

\* the resource kind a create call creates
CreateKind(op) ==
  CASE op = "create_vpc" -> "vpc"
    [] op = "create_internet_gateway" -> "igw"
    [] op = "create_route_table" -> "rt"
    [] op = "create_subnet" -> "subnet"
    [] op = "create_security_group" -> "sg"
    [] op = "create_target_group" -> "tg"
    [] op = "create_load_balancer" -> "lb"
    [] op = "create_listener" -> "listener"
    [] op = "create_launch_template" -> "lt"
    [] op = "create_auto_scaling_group" -> "asg"
    [] OTHER -> "none"

IsCreate(op) == CreateKind(op) # "none"

\* the "depends on (creation)" column of the entity table
DependsOn(kind) ==
  CASE kind = "igw" -> {"vpc"}
    [] kind = "rt" -> {"vpc", "igw"}
    [] kind = "subnet" -> {"vpc", "rt"}
    [] kind = "sg" -> {"vpc"}
    [] kind = "tg" -> {"vpc"}
    [] kind = "lb" -> {"subnet"}
    [] kind = "listener" -> {"lb", "tg"}
    [] kind = "lt" -> {"sg"}
    [] kind = "asg" -> {"lt", "subnet", "tg"}
    [] OTHER -> {}

\* the topology has two subnets, one network, one gateway, ...
Needed(kind) == IF kind = "subnet" THEN 2 ELSE 1

\* the create calls of a kind that returned before call j
Returned(kind, j) ==
  {i \in 1..(j - 1) : CreateKind(calls[i].op) = kind /\ calls[i].res = "ok"}

\* C1: in every builder run, aborted ones included, a create call of a kind
\* is issued only after the create calls of all kinds it depends on have
\* returned, and every identifier a call passes was returned by an earlier
\* create call of the same run.
C1_CreateOrder ==
  InBuilderLog =>
    \A j \in 1..Len(calls) :
      /\ \A k \in DependsOn(CreateKind(calls[j].op)) :
           Cardinality(Returned(k, j)) >= Needed(k)
      /\ \A d \in calls[j].deps :
           \E i \in 1..(j - 1) :
             IsCreate(calls[i].op) /\ calls[i].res = "ok" /\ calls[i].id = d

C1_Witness ==
  /\ mode = "idle" /\ last = <<"builder", "done">>
  /\ \E j \in 1..Len(calls) :
       calls[j].op = "create_auto_scaling_group" /\ calls[j].res = "ok"

IsDelete(op) ==
  op \in {"delete_auto_scaling_group", "delete_load_balancer", "delete_target_group",
          "delete_launch_template", "delete_security_group", "delete_internet_gateway",
          "delete_subnet", "delete_route_table", "delete_vpc"}

Deletes == {j \in 1..Len(calls) : IsDelete(calls[j].op)}

MustOutlive(r, d) ==
  CASE r = "vpc" -> TRUE
    [] r = "rt" -> d = "subnet"
    [] r = "subnet" -> d \in {"lb", "asg"}
    [] r = "sg" -> d = "lt"
    [] r = "tg" -> d \in {"listener", "lb", "asg"}
    [] r = "lb" -> d = "listener"
    [] r = "lt" -> d = "asg"
    [] OTHER -> FALSE

\* what the reaper has no listing for: listeners, and main route tables
Undiscovered(d) == d.kind = "listener" \/ d.main

\* d still references the resource id (a gateway: while it is attached)
DependsNow(d, id) == IF d.kind = "igw" THEN d.att = id ELSE id \in d.deps

\* C3: when the reaper issues the delete call of a resource R, no resource
\* it discovers that depends on R (per the "must outlive" column) still
\* exists: each has been deleted by an earlier call of the run.
C3_DependentsGone ==
  InReaperLog =>
    \A j \in Deletes : \A d \in cp :
      (DependsNow(d, calls[j].id) /\ MustOutlive(calls[j].id[1], d.kind))
        => Undiscovered(d)

C3_Witness ==
  /\ mode = "reaper"
  /\ \E j \in Deletes : calls[j].op = "delete_security_group" /\ calls[j].res = "ok"
  /\ \E i \in Deletes : calls[i].op = "delete_launch_template" /\ calls[i].res = "ok"
  /\ \E i \in Deletes : calls[i].op = "delete_route_table" /\ calls[i].res = "ok"

\* C4 as stated: every create call of the builder carries the tag
\* stack = NAME, so every resource the builder created carries it.
C4_AllCreatesTagged ==
  /\ InBuilderLog =>
       \A j \in 1..Len(calls) :
         IsCreate(calls[j].op) => <<"stack", NAME>> \in calls[j].tags
  /\ \A r \in cp : (r.id[2] >= 1 /\ ~r.main) => has_stack_tag(r)

\* C5: when the run that follows a completed builder run is a reaper run
\* and runs to completion, nothing that builder run created is left; and
\* when that builder run was the first one, no resource is left that
\* carries the stack tag.
C5_CompleteTeardown ==
  [][(/\ mode = "reaper" /\ last = <<"builder", "done">>
      /\ mode' = "idle" /\ last' = <<"reaper", "done">>) =>
       /\ \A r \in cp' : r.id[2] # builds
       /\ builds = 1 => \A r \in cp' : ~has_stack_tag(r)]_vars

\* no call has failed; the first builder run completed, and the reaper run
\* that deleted its scaling group and its network has completed
C5_Witness ==
  /\ mode = "idle" /\ last = <<"reaper", "done">>
  /\ faults = 0 /\ builds = 1 /\ completed = {1}
  /\ \E j \in Deletes : calls[j].op = "delete_vpc" /\ calls[j].res = "ok"
  /\ \E j \in Deletes : calls[j].op = "delete_auto_scaling_group" /\ calls[j].res = "ok"

\* C6 as stated: once a reaper run has run to completion, no resource that
\* carries the stack tag is left, whatever prefix of a builder run made it.
C6_NoTaggedLeft ==
  (mode = "idle" /\ last = <<"reaper", "done">>) =>
    \A r \in cp : ~has_stack_tag(r)

\* the calls of the reaper that change the control plane
IsMutation(op) ==
  IsDelete(op) \/ op \in {"update_auto_scaling_group", "detach_internet_gateway"}

NoMutation(log) == \A j \in 1..Len(log) : ~IsMutation(log[j].op)

\* C7: a reaper run that starts after a completed reaper run issues no
\* update, detach or delete call and ends normally.
C7_Idempotent ==
  [][(mode = "reaper" /\ last = <<"reaper", "done">>) =>
       /\ NoMutation(calls')
       /\ mode' = "idle" => last' = <<"reaper", "done">>]_vars

\* No call has failed, so every reaper run so far has completed; a builder
\* run had completed, and the reaper run that just ended found nothing of it.
C7_Witness ==
  /\ mode = "idle" /\ last = <<"reaper", "done">>
  /\ faults = 0 /\ completed = {1}
  /\ calls # <<>> /\ calls[Len(calls)].op = "print_destroyed"
  /\ NoMutation(calls)

\* the first k invocations raise a transient conflict
TransientPrefix(k) == \A i \in 1..k : script[i] \in Transients

Invocations == Cardinality({j \in 1..Len(calls) : calls[j].op = "fn"})
Sleeps == Cardinality({j \in 1..Len(calls) : calls[j].op = "sleep"})

\* C8: when the operation raises a transient conflict on its first k
\* invocations and returns on invocation k + 1, retry invokes it k + 1
\* times, sleeps k times and returns without an error.
C8_RetryUntilSuccess ==
  mode = "retry" =>
    \A k \in 0..(Len(script) - 1) :
      (TransientPrefix(k) /\ script[k + 1] = None) =>
        /\ rt.attempts <= k + 1
        /\ rt.status # "raised"
        /\ rt.attempts = Invocations /\ rt.sleeps = Sleeps
        /\ rt.attempts = k + 1 => (rt.status = "returned" /\ rt.sleeps = k)
        /\ rt.attempts < k + 1 => (rt.status = "running" /\ rt.sleeps = rt.attempts)

\* three conflicts, then success: four attempts
C8_Witness ==
  /\ mode = "retry"
  /\ Len(script) = 4 /\ TransientPrefix(3) /\ script[4] = None
  /\ rt.status = "returned" /\ Invocations = 4 /\ Sleeps = 3

\* C9: an invocation that raises an error whose code is neither
\* DependencyViolation nor ResourceInUse ends retry at once: the error
\* propagates, with no sleep and no invocation after it.
C9_FatalPropagates ==
  mode = "retry" =>
    \A n \in 1..Len(script) :
      (TransientPrefix(n - 1) /\ script[n] \in Fatals) =>
        /\ rt.attempts <= n
        /\ rt.status # "returned"
        /\ rt.attempts = Invocations /\ rt.sleeps = Sleeps
        /\ rt.attempts = n =>
             (rt.status = "raised" /\ rt.sleeps = n - 1 /\ calls[Len(calls)].op = "fn")

\* the sections that follow a section of destroy.py
Later(phase) ==
  CASE phase = "tg" -> {"lt", "sg"}
    [] phase = "lt" -> {"sg"}
    [] OTHER -> {}

PhaseOf(op) ==
  CASE op = "delete_target_group" -> "tg"
    [] op = "delete_launch_template" -> "lt"
    [] OTHER -> "none"

NonTransient(res) == res \notin {"ok", "DependencyViolation", "ResourceInUse"}

\* call j of the log raised, and the exception left the call: retry did not
\* wait it out (a wait is logged as the sleep that follows the call)
Escaped(j) ==
  /\ calls[j].res # "ok"
  /\ ~(j < Len(calls) /\ calls[j + 1] = Sleep(RetryDelay))

\* C10 as stated: a non-transient failure of a delete call does not keep the
\* reaper from the sections of the kinds that follow: when the run has
\* ended, nothing that those sections list is left unattempted.
C10_LaterKindsAttempted ==
  (mode = "idle" /\ last[1] = "reaper" /\ calls # <<>>) =>
    LET e == calls[Len(calls)]
    IN (IsDelete(e.op) /\ NonTransient(e.res)) =>
         \A ph \in Later(PhaseOf(e.op)) : Listing(ph, cp, NoId) = {}

\* C10 amended: a call of the reaper whose exception leaves the call (raised
\* by a direct call, or re-raised by retry) is the last call of the run: the
\* run ends there, failed, with no call on what remains.
C10_FatalEndsRun ==
  InReaperLog =>
    \A j \in 1..Len(calls) :
      Escaped(j) => (j = Len(calls) /\ mode = "idle" /\ last = <<"reaper", "failed">>)

C10_Witness ==
  /\ mode = "idle" /\ last = <<"reaper", "failed">>
  /\ calls # <<>>
  /\ calls[Len(calls)].op = "delete_target_group"
  /\ NonTransient(calls[Len(calls)].res)
  /\ ListLts(cp) # {}
  /\ ListSgs(cp) # {}

\* the two conflict codes the control plane reports for a resource that is
\* still in use or still referenced
IsConflict(res) == res \in {"DependencyViolation", "ResourceInUse"}

\* C11 as stated: a transient conflict returned by any update, detach or
\* delete call of a reaper run is waited out and the call retried; it never
\* ends the run.
C11_ConflictRecovered ==
  InReaperLog =>
    \A j \in 1..Len(calls) :
      (IsMutation(calls[j].op) /\ IsConflict(calls[j].res)) => ~Escaped(j)

\* C12 as stated: the scaling group is never created with capacity bounds
\* that violate 0 <= min <= desired <= max.
C12_CapacityOrdered ==
  InBuilderLog =>
    \A j \in 1..Len(calls) :
      calls[j].op = "create_auto_scaling_group" =>
        LET min == calls[j].arg[1]
            max == calls[j].arg[2]
            desired == calls[j].arg[3]
        IN 0 <= min /\ min <= desired /\ desired <= max

\* an image identifier is "ami-" followed by hexadecimal digits
HexDigits == {"0", "1", "2", "3", "4", "5", "6", "7", "8", "9", "a", "b", "c", "d", "e", "f"}

WellFormedAmi(ami) ==
  /\ Len(ami) >= 2
  /\ ami[1] = "ami-"
  /\ \A i \in 2..Len(ami) : ami[i] \in HexDigits

ConfigError == ~WellFormedAmi(script.ami) \/ script.azs < 2

\* C13 as stated: under a configuration error (a malformed image identifier,
\* or fewer than two available zones) the builder issues no create call and
\* no resource exists as a result of the run.
C13_ConfigErrorsRejected ==
  ConfigError =>
    /\ \A j \in 1..Len(calls) : ~IsCreate(calls[j].op)
    /\ cp = {}

Failed(res) == res # "ok"

\* C14: a failing call of the builder is the last thing the run does: no
\* call follows it, the run never issues an update, detach or delete call,
\* no summary is printed, and the failing step leaves every resource as it
\* was.
C14_AbortNoRollback ==
  /\ [](InBuilderLog =>
          \A j \in 1..Len(calls) :
            /\ ~IsMutation(calls[j].op)
            /\ Failed(calls[j].res) =>
                 /\ j = Len(calls)
                 /\ mode = "idle" /\ last = <<"builder", "failed">>
                 /\ builds \notin completed)
  /\ [][(mode = "builder" /\ calls' # calls /\ Failed(calls'[Len(calls')].res)) =>
          (cp' = cp /\ mode' = "idle" /\ completed' = completed)]_vars

\* the launch template could not be created: the network, the load balancer
\* and the listener of the run are still there
C14_Witness ==
  /\ mode = "idle" /\ last = <<"builder", "failed">>
  /\ calls # <<>>
  /\ calls[Len(calls)].op = "create_launch_template"
  /\ calls[Len(calls)].res = "UnauthorizedOperation"
  /\ {r.kind : r \in {x \in cp : x.id[2] = builds}}
       = {"vpc", "rt", "igw", "subnet", "sg", "tg", "lb", "listener"}

\* call j is a scaling-group delete that follows the zeroing of the same
\* group and the settle delay
ZeroedFirst(j) ==
  /\ j >= 3
  /\ calls[j - 2].op = "update_auto_scaling_group"
  /\ calls[j - 2].id = calls[j].id
  /\ calls[j - 2].arg = <<0, 0, 0>>
  /\ calls[j - 2].res = "ok"
  /\ calls[j - 1] = Sleep(AsgSettleDelay)

\* call j passes ForceDelete although no unforced delete of the same group
\* was tried and refused before it
ForcedAtOnce(j) ==
  /\ calls[j].arg = <<TRUE>>
  /\ ~\E i \in 1..(j - 1) :
        /\ calls[i].op = "delete_auto_scaling_group"
        /\ calls[i].id = calls[j].id
        /\ calls[i].arg = <<FALSE>>
        /\ Failed(calls[i].res)

\* C15 as stated: the reaper deletes a scaling group only after it set the
\* group's capacity to zero and waited the settle delay, and it forces the
\* delete only as a last resort.
C15_ZeroedThenForcedLast ==
  InReaperLog =>
    \A j \in 1..Len(calls) :
      calls[j].op = "delete_auto_scaling_group" => (ZeroedFirst(j) /\ ~ForcedAtOnce(j))

\* the describe polls of create_nlb's wait loop, and what they reported
Polls == {j \in 1..Len(calls) : calls[j].op = "describe_load_balancers"}
Reported(j, s) == calls[j].res = "ok" /\ calls[j].arg = <<s>>
ActivePolls == {j \in Polls : Reported(j, "active")}
PendingPolls == {j \in Polls : calls[j].res = "ok" /\ calls[j].arg # <<"active">>}

\* the builder has left create_nlb and stands before, or has issued, the
\* listener create call that follows entry j of the log
ListenerNext(j) ==
  IF j = Len(calls)
  THEN mode = "builder" /\ main[bpc[1]] = "create_nlb_listener_tcp_443"
  ELSE calls[j + 1].op = "create_listener"

\* C16: the wait after the load balancer's creation issues at most 30
\* polls; a poll that reports "active" is the last one, with no sleep after
\* it; and after 30 polls that report another state the function returns
\* without raising and the builder goes on to the listener.
C16_WaitTerminates ==
  InBuilderLog =>
    /\ Cardinality(Polls) <= PollBudget
    /\ polls <= PollBudget
    /\ \A j \in ActivePolls : ListenerNext(j)
    /\ \A j \in PendingPolls :
         /\ j < Len(calls) /\ calls[j + 1] = Call("sleep", NoId, {}, {}, <<2>>, "ok")
         /\ Cardinality({i \in PendingPolls : i <= j}) = PollBudget => ListenerNext(j + 1)
         /\ Cardinality({i \in PendingPolls : i <= j}) < PollBudget =>
              \/ j + 1 = Len(calls) /\ mode = "builder" /\ main[bpc[1]] = "create_nlb"
              \/ j + 1 < Len(calls) /\ calls[j + 2].op = "describe_load_balancers"

\* thirty polls, none of them "active", and the listener was created
C16_Witness ==
  /\ InBuilderLog
  /\ Cardinality(PendingPolls) = PollBudget
  /\ ActivePolls = {}
  /\ \E j \in 1..Len(calls) : calls[j].op = "create_listener" /\ calls[j].res = "ok"

Listeners == {j \in 1..Len(calls) : calls[j].op = "create_listener"}

C18_StuckForever ==
  TransientPrefix(Len(script)) =>
    /\ mode = "retry"
    /\ rt.status = "running"
    /\ rt.attempts = Invocations /\ rt.sleeps = rt.attempts /\ Sleeps = rt.sleeps
    /\ \A j \in 1..Len(calls) : calls[j].op \in {"fn", "sleep"}

\* four conflicts in a row: four invocations, four sleeps, still waiting
C18_Witness ==
  /\ mode = "retry"
  /\ Len(script) = 4 /\ TransientPrefix(4)
  /\ Invocations = 4 /\ Sleeps = 4
  /\ rt.status = "running"

Ids(S) == {x.id : x \in S}

\* the loop a position of the reaper belongs to
LoopOf(pc) ==
  CASE pc \in {"asg", "asg_update", "asg_delete"} -> "asg"
    [] pc \in {"tg", "tg_delete"} -> "tg"
    [] pc \in {"sg", "sg_delete"} -> "sg"
    [] pc \in {"igw", "igw_detach", "igw_delete"} -> "igw"
    [] pc \in {"subnet", "subnet_delete"} -> "subnet"
    [] pc \in {"rtb", "rtb_delete"} -> "rtb"
    [] OTHER -> pc

InNetworkLoop == LoopOf(rpc) \in {"vpc", "igw", "subnet", "rtb", "vpc_delete"}

KindDeleted(op) ==
  CASE op = "delete_auto_scaling_group" -> "asg"
    [] op = "delete_load_balancer" -> "lb"
    [] op = "delete_target_group" -> "tg"
    [] op = "delete_launch_template" -> "lt"
    [] op = "delete_security_group" -> "sg"
    [] op = "delete_internet_gateway" -> "igw"
    [] op = "delete_subnet" -> "subnet"
    [] op = "delete_route_table" -> "rt"
    [] op = "delete_vpc" -> "vpc"
    [] OTHER -> "none"

\* what a loop has discovered and not deleted is still ahead of it: in its
\* listing, or the item of the current iteration
NothingSkipped ==
  mode = "reaper" =>
    /\ Ids(Listing(LoopOf(rpc), cp, vpc.id)) \subseteq Ids(todo) \cup {cur.id}
    /\ InNetworkLoop => Ids(ListVpcs(cp)) \subseteq Ids(vpcTodo) \cup {vpc.id}

\* no delete call names an identifier that an earlier call of the run deleted
NoSecondDelete ==
  InReaperLog =>
    \A i \in Deletes : \A j \in Deletes :
      (i < j /\ calls[i].res = "ok") => calls[j].id # calls[i].id

\* a successful delete call removes the resource it names, which is not one
\* still waiting in a listing, and removes no other resource of that kind
DeletesItsOwn ==
  (mode = "reaper" /\ Len(calls') > Len(calls)) =>
    LET e == calls'[Len(calls) + 1]
    IN (IsDelete(e.op) /\ e.res = "ok") =>
         /\ e.id \in Ids(cp) /\ e.id \notin Ids(cp')
         /\ e.id \notin Ids(todo') \cup Ids(vpcTodo')
         /\ \A r \in cp :
              (r.kind = KindDeleted(e.op) /\ r.id \notin Ids(cp')) => r.id = e.id

\* C19: every resource a loop of the reaper discovers gets one successful
\* delete call, carrying its own identifier, whatever was retried in
\* between; no identifier is deleted twice.
C19_EachDeletedOnce == [](NothingSkipped /\ NoSecondDelete) /\ [][DeletesItsOwn]_vars

\* both subnets deleted, the second one after a conflict was waited out
C19_Witness ==
  /\ mode = "idle" /\ last = <<"reaper", "done">>
  /\ \E i \in Deletes : \E j \in Deletes : \E k \in Deletes :
       /\ i < j /\ j < k
       /\ calls[i].op = "delete_subnet" /\ calls[i].res = "ok"
       /\ calls[j].op = "delete_subnet" /\ calls[j].res = "DependencyViolation"
       /\ calls[k].op = "delete_subnet" /\ calls[k].res = "ok"
       /\ calls[k].id = calls[j].id /\ calls[k].id # calls[i].id

\* the resource belongs to the stack: it carries the stack-identity tag, or
\* it lies inside (or is attached to) a network that carries it
InTaggedNetwork(r, c) ==
  \E v \in c : v.kind = "vpc" /\ has_stack_tag(v) /\ (r.vpc = v.id \/ r.att = v.id)

BelongsToStack(r, c) == has_stack_tag(r) \/ InTaggedNetwork(r, c)

\* C20 as stated: every update, detach or delete call of the reaper names a
\* resource that belongs to the stack.
C20_OnlyStackResources ==
  [][(mode = "reaper" /\ Len(calls') > Len(calls)) =>
       LET e == calls'[Len(calls) + 1]
       IN IsMutation(e.op) => \A r \in cp : r.id = e.id => BelongsToStack(r, cp)]_vars

====
